---- MODULE Spec2Model ----
(***************************************************************************)
(* Model of fprime_gds_client_sample_script.py: the SpecificChannel data   *)
(* handler, the main() driver and the pipeline's delivery context that     *)
(* calls data_callback for every channel sample that arrives.              *)
(*                                                                         *)
(* The main thread is a process whose position is pc; every statement of   *)
(* main() that calls into the host framework may return or raise.  The     *)
(* delivery context is a second process: samples arrive in the pipeline    *)
(* (queue) and are handed to data_callback one at a time, in arrival order.*)
(***************************************************************************)
EXTENDS Naturals, Sequences, FiniteSets, TLC

VARIABLES
    pc,               \* position of the main thread in main()
    arguments,        \* local `arguments` of main (NoValue while unbound)
    pipeline,         \* local `pipeline` of main (NoValue while unbound)
    channel_handler,  \* local `channel_handler` of main (NoValue while unbound)
    raised,           \* the exception most recently raised (NoValue if none)
    stderr,           \* lines printed to sys.stderr, each a sequence of pieces
    stdout,           \* lines printed to standard output
    queue,            \* samples received by the pipeline, not yet delivered
    arrivals,         \* history: every sample received, in arrival order
    dumpRan           \* history: dump_data's body has run (read last_value)

vars == <<pc, arguments, pipeline, channel_handler, raised, stderr, stdout,
          queue, arrivals, dumpRan>>

----------------------------------------------------------------------------
(* Bounds of the model *)

MaxArrivals == 3
MaxVal == 2

----------------------------------------------------------------------------
(* Values *)

\* An unbound local name, and Python's None (records, so that they compare
\* with the records that stand for objects).
NoValue == [unbound |-> TRUE]
None == [none |-> TRUE]

\* Channel dictionaries the pipeline may have loaded: a Python dict keeps its
\* insertion order, so a dictionary is a sequence of (name, template) items.
Dictionaries ==
    { << [name |-> "blockDrv.BD_Cycles", id |-> 7] >>,
      << [name |-> "chA", id |-> 1], [name |-> "chB", id |-> 2] >> }

\* Values of --channel-name given on the command line.
ArgNames == {"blockDrv.BD_Cycles", "chA", "doesNotExist"}

keys(d) == [i \in 1..Len(d) |-> d[i].name]

KeySet(d) == {d[i].name : i \in 1..Len(d)}

\* channels_by_name[name]; the caller checks name \in KeySet(d) first.
getitem(d, name) == (CHOOSE i \in 1..Len(d) : d[i].name = name)

\* m[k] = v on a Python dict: k is added when it is not yet a key.
setitem(m, k, v) == [x \in (DOMAIN m) \cup {k} |-> IF x = k THEN v ELSE m[x]]

\* str.join: the items with the separator between neighbours.
RECURSIVE join(_, _)
join(sep, items) ==
    IF items = <<>> THEN <<>>
    ELSE IF Len(items) = 1 THEN <<items[1]>>
    ELSE <<items[1], sep>> \o join(sep, Tail(items))

\* repr() of a str key, which is what str(KeyError(key)) gives.
repr(s) == "'" \o s \o "'"

----------------------------------------------------------------------------
(* Exceptions *)

Exc(type, arg, at) == [type |-> type, arg |-> arg, at |-> at]

\* Classes derived from Exception (KeyError is matched by its own clause).
ExceptionSubclasses == {"Exception", "KeyError", "NameError", "TypeError",
                        "UnboundLocalError"}

\* Mutant: the generic clause written before the KeyError clause.
ExceptClause_generic_first(type) ==
    IF type = "KeyboardInterrupt" THEN "exc_kbd"
    ELSE IF type \in ExceptionSubclasses THEN "exc_any"
    ELSE "escaped"

\* Mutant: no clause for KeyboardInterrupt, which Exception does not cover.
ExceptClause_no_interrupt(type) ==
    IF type = "KeyError" THEN "exc_key"
    ELSE IF type \in ExceptionSubclasses THEN "exc_any"
    ELSE "escaped"

\* The except clauses of main's try statement, in source order.  An exception
\* no clause matches (SystemExit) propagates out of main.
ExceptClause(type) ==
    IF type = "KeyboardInterrupt" THEN "exc_kbd"
    ELSE IF type = "KeyError" THEN "exc_key"
    ELSE IF type \in ExceptionSubclasses THEN "exc_any"
    ELSE "escaped"

\* str(exc) as the generic handler formats it.
ExcText(e) == IF e.type = "KeyError" THEN repr(e.arg) ELSE e.arg

\* Mutant: the KeyError clause returns from main after printing.
AfterHandler_return(clause) ==
    IF clause = "exc_key" THEN "done" ELSE "disconnect"

\* Control after an except clause's body has completed: the statement that
\* follows the try statement.
AfterHandler(clause) == "disconnect"

Raise(e) ==
    /\ raised' = e
    /\ pc' = ExceptClause(e.type)

----------------------------------------------------------------------------
(* class SpecificChannel *)

\* __init__: the result is the constructed object, or the KeyError raised.
SpecificChannel_init(channels_by_name, name) ==
    LET last_value == [key \in KeySet(channels_by_name) |-> None]
    IN  IF name \in KeySet(channels_by_name)
        THEN [ok |-> TRUE,
              self |-> [last_value |-> last_value,
                        id |-> channels_by_name[getitem(channels_by_name, name)].id]]
        ELSE [ok |-> FALSE, exc |-> Exc("KeyError", name, "construct")]

\* Mutant: a sample is stored only while the entry is still None.
data_callback_keep_first(self, data) ==
    IF data.name \in DOMAIN self.last_value /\ self.last_value[data.name] # None
    THEN self
    ELSE [self EXCEPT !.last_value = setitem(self.last_value, data.name, data)]

\* Mutant: the mapping is rebuilt around the incoming sample.
data_callback_rebuild(self, data) ==
    [self EXCEPT !.last_value =
        [x \in (DOMAIN self.last_value) \cup {data.name} |->
            IF x = data.name THEN data ELSE None]]

\* Mutant: only samples of the channel resolved at construction are stored.
data_callback_filtered(self, data) ==
    IF data.id = self.id
    THEN [self EXCEPT !.last_value = setitem(self.last_value, data.name, data)]
    ELSE self

\* data_callback: the object after the call; nothing is printed.
data_callback(self, data) ==
    [self EXCEPT !.last_value = setitem(self.last_value, data.name, data)]

\* Lines data_callback prints for `data`.
data_callback_prints(self, data) == <<>>

\* Number of positional parameters dump_data declares.
dump_data_params == <<>>

----------------------------------------------------------------------------
(* main *)

\* Names bound in main's local scope once the handler has been registered,
\* and the module's global names.
MainLocals == {"arguments", "_", "pipeline", "channel_handler"}
ModuleGlobals == {"sys", "time", "Any", "Dict", "Tuple", "ParserBase",
                  "StandardPipelineParser", "DataHandler", "SpecificChannel",
                  "ChannelNameParser", "main"}

\* The name main's loop evaluates to reach dump_data.
DumpTarget == "chanbel_handler"

\* Mutant: the call resolves and dump_data accepts the instance.
DumpOutcome_resolves == NoValue

\* Outcome of `chanbel_handler.dump_data()`.
DumpOutcome ==
    IF DumpTarget \notin MainLocals \cup ModuleGlobals
    THEN Exc("NameError", "name '" \o DumpTarget \o "' is not defined", "dump")
    ELSE IF Len(dump_data_params) # 1
    THEN Exc("TypeError",
             "dump_data() takes 0 positional arguments but 1 was given", "dump")
    ELSE NoValue

Init ==
    /\ pc = "parse"
    /\ arguments = NoValue
    /\ pipeline = NoValue
    /\ channel_handler = NoValue
    /\ raised = NoValue
    /\ stderr = <<>>
    /\ stdout = <<>>
    /\ queue = <<>>
    /\ arrivals = <<>>
    /\ dumpRan = FALSE

\* ParserBase.parse_args(...) returns the namespace.
ParseArgs ==
    /\ pc = "parse"
    /\ \E name \in ArgNames : arguments' = [channel_name |-> name]
    /\ pc' = "factory"
    /\ UNCHANGED <<pipeline, channel_handler, raised, stderr, stdout, queue,
                   arrivals, dumpRan>>

\* ParserBase.parse_args(...) raises: argparse exits (SystemExit) on a missing
\* --channel-name, the host parsers may raise, the user may interrupt.
ParseArgsRaises ==
    /\ pc = "parse"
    /\ \E t \in {"SystemExit", "KeyError", "Exception", "KeyboardInterrupt"} :
          Raise(Exc(t, "parse_args", "parse"))
    /\ UNCHANGED <<arguments, pipeline, channel_handler, stderr, stdout, queue,
                   arrivals, dumpRan>>

\* StandardPipelineParser.pipeline_factory(args_ns=arguments) returns a
\* connected pipeline with its dictionaries loaded.
PipelineFactory ==
    /\ pc = "factory"
    /\ \E d \in Dictionaries :
          pipeline' = [channel_name |-> d, consumer |-> FALSE,
                       disconnected |-> FALSE]
    /\ pc' = "construct"
    /\ UNCHANGED <<arguments, channel_handler, raised, stderr, stdout, queue,
                   arrivals, dumpRan>>

PipelineFactoryRaises ==
    /\ pc = "factory"
    /\ \E t \in {"KeyError", "Exception", "KeyboardInterrupt"} :
          Raise(Exc(t, "pipeline_factory", "factory"))
    /\ UNCHANGED <<arguments, pipeline, channel_handler, stderr, stdout, queue,
                   arrivals, dumpRan>>

\* channel_handler = SpecificChannel(pipeline.dictionaries.channel_name,
\*                                   arguments.channel_name)
Construct ==
    /\ pc = "construct"
    /\ LET r == SpecificChannel_init(pipeline.channel_name,
                                     arguments.channel_name)
       IN  IF r.ok
           THEN /\ channel_handler' = r.self
                /\ pc' = "register"
                /\ UNCHANGED raised
           ELSE /\ Raise(r.exc)
                /\ UNCHANGED channel_handler
    /\ UNCHANGED <<arguments, pipeline, stderr, stdout, queue, arrivals,
                   dumpRan>>

\* pipeline.coders.register_channel_consumer(channel_handler)
Register ==
    /\ pc = "register"
    /\ pipeline' = [pipeline EXCEPT !.consumer = TRUE]
    /\ pc' = "sleep"
    /\ UNCHANGED <<arguments, channel_handler, raised, stderr, stdout, queue,
                   arrivals, dumpRan>>

RegisterRaises ==
    /\ pc = "register"
    /\ \E t \in {"Exception", "KeyboardInterrupt"} :
          Raise(Exc(t, "register_channel_consumer", "register"))
    /\ UNCHANGED <<arguments, pipeline, channel_handler, stderr, stdout, queue,
                   arrivals, dumpRan>>

\* time.sleep(60) returns.
Sleep ==
    /\ pc = "sleep"
    /\ pc' = "dump"
    /\ UNCHANGED <<arguments, pipeline, channel_handler, raised, stderr,
                   stdout, queue, arrivals, dumpRan>>

\* CTRL-C while in time.sleep(60).
SleepInterrupted ==
    /\ pc = "sleep"
    /\ Raise(Exc("KeyboardInterrupt", "", "sleep"))
    /\ UNCHANGED <<arguments, pipeline, channel_handler, stderr, stdout, queue,
                   arrivals, dumpRan>>

\* chanbel_handler.dump_data(): on success the body iterates
\* self.last_value.items() and the loop goes back to sleep.
Dump ==
    /\ pc = "dump"
    /\ IF DumpOutcome = NoValue
       THEN /\ dumpRan' = TRUE
            /\ pc' = "sleep"
            /\ UNCHANGED raised
       ELSE /\ Raise(DumpOutcome)
            /\ UNCHANGED dumpRan
    /\ UNCHANGED <<arguments, pipeline, channel_handler, stderr, stdout, queue,
                   arrivals>>

\* except KeyboardInterrupt: pass
HandleKeyboardInterrupt ==
    /\ pc = "exc_kbd"
    /\ pc' = AfterHandler("exc_kbd")
    /\ UNCHANGED <<arguments, pipeline, channel_handler, raised, stderr,
                   stdout, queue, arrivals, dumpRan>>

\* except KeyError as key: reading the unbound local `pipeline` raises
\* UnboundLocalError inside the handler, which leaves main.
HandleKeyError ==
    /\ pc = "exc_key"
    /\ IF pipeline = NoValue
       THEN /\ raised' = Exc("UnboundLocalError", "pipeline", "exc_key")
            /\ pc' = "escaped"
            /\ UNCHANGED stderr
       ELSE /\ LET choose_from == join("\n\t", keys(pipeline.channel_name))
               IN  stderr' = Append(stderr,
                       <<"[ERROR] Unknown channel name: ", ExcText(raised),
                         "\n\t">> \o choose_from)
            /\ pc' = AfterHandler("exc_key")
            /\ UNCHANGED raised
    /\ UNCHANGED <<arguments, pipeline, channel_handler, stdout, queue,
                   arrivals, dumpRan>>

\* except Exception as exc
HandleException ==
    /\ pc = "exc_any"
    /\ stderr' = Append(stderr,
                   <<"[ERROR] Failed to run example code: ", ExcText(raised)>>)
    /\ pc' = AfterHandler("exc_any")
    /\ UNCHANGED <<arguments, pipeline, channel_handler, raised, stdout, queue,
                   arrivals, dumpRan>>

\* pipeline.disconnect(): the statement after the try statement.
Disconnect ==
    /\ pc = "disconnect"
    /\ IF pipeline = NoValue
       THEN /\ raised' = Exc("UnboundLocalError", "pipeline", "disconnect")
            /\ pc' = "escaped"
            /\ UNCHANGED pipeline
       ELSE /\ pipeline' = [pipeline EXCEPT !.disconnected = TRUE]
            /\ pc' = "done"
            /\ UNCHANGED raised
    /\ UNCHANGED <<arguments, channel_handler, stderr, stdout, queue, arrivals,
                   dumpRan>>

----------------------------------------------------------------------------
(* The pipeline's delivery context *)

\* Is the handler a registered consumer of a connected pipeline?
Consuming ==
    /\ pipeline # NoValue
    /\ pipeline.consumer
    /\ ~pipeline.disconnected

\* A channel sample decoded against the dictionary is received.
Arrive ==
    /\ Consuming
    /\ Len(arrivals) < MaxArrivals
    /\ \E i \in 1..Len(pipeline.channel_name), v \in 1..MaxVal :
          LET data == [name |-> pipeline.channel_name[i].name,
                       id |-> pipeline.channel_name[i].id,
                       val |-> v,
                       time |-> Len(arrivals) + 1]
          IN  /\ arrivals' = Append(arrivals, data)
              /\ queue' = Append(queue, data)
    /\ UNCHANGED <<pc, arguments, pipeline, channel_handler, raised, stderr,
                   stdout, dumpRan>>

\* The delivery context calls channel_handler.data_callback(data) for the
\* oldest sample not yet delivered.
Deliver ==
    /\ queue # <<>>
    /\ channel_handler' = data_callback(channel_handler, Head(queue))
    /\ stdout' = stdout \o data_callback_prints(channel_handler, Head(queue))
    /\ queue' = Tail(queue)
    /\ UNCHANGED <<pc, arguments, pipeline, raised, stderr, arrivals, dumpRan>>

----------------------------------------------------------------------------

Next ==
    \/ ParseArgs
    \/ ParseArgsRaises
    \/ PipelineFactory
    \/ PipelineFactoryRaises
    \/ Construct
    \/ Register
    \/ RegisterRaises
    \/ Sleep
    \/ SleepInterrupted
    \/ Dump
    \/ HandleKeyboardInterrupt
    \/ HandleKeyError
    \/ HandleException
    \/ Disconnect
    \/ Arrive
    \/ Deliver

Spec == Init /\ [][Next]_vars

----------------------------------------------------------------------------
(* Properties *)

\* The samples data_callback has been called with, in the order of the calls.
Delivered == SubSeq(arrivals, 1, Len(arrivals) - Len(queue))

Range(f) == {f[i] : i \in DOMAIN f}

\* The last sample of s that carries name n, None when there is none.
RECURSIVE LastNamed(_, _)
LastNamed(s, n) ==
    IF s = <<>> THEN None
    ELSE IF s[Len(s)].name = n THEN s[Len(s)]
    ELSE LastNamed(SubSeq(s, 1, Len(s) - 1), n)

\* The mapping obtained by storing the samples of s one after the other,
\* starting from mapping m.
RECURSIVE StoreAll(_, _)
StoreAll(m, s) ==
    IF s = <<>> THEN m
    ELSE StoreAll([x \in (DOMAIN m) \cup {s[1].name} |->
                      IF x = s[1].name THEN s[1] ELSE m[x]], Tail(s))

Terminal == {"done", "escaped"}

\* C1: once the handler is constructed, last_value has a key for every name
\* of the dictionary, and the value under a name is the sample most recently
\* delivered with that name, or None when none has been delivered: a single
\* sample, never a collection of the earlier ones.
C1_LastValuePerName ==
    channel_handler # NoValue =>
        \A n \in KeySet(pipeline.channel_name) :
            /\ n \in DOMAIN channel_handler.last_value
            /\ channel_handler.last_value[n] = LastNamed(Delivered, n)

\* Two different samples of one name have been delivered one after the
\* other, and the second is the one stored.
C1_Witness ==
    /\ channel_handler # NoValue
    /\ Len(Delivered) >= 2
    /\ Delivered[1].name = Delivered[2].name
    /\ Delivered[1].val # Delivered[2].val
    /\ channel_handler.last_value[Delivered[2].name] = Delivered[2]

\* C2: a delivery of a sample named X stores it under X, leaves the entry of
\* every other name as it was, and leaves the resolved id as it was.
C2_DeliveryFrame ==
    [][(queue # <<>> /\ queue' = Tail(queue)) =>
          /\ channel_handler'.id = channel_handler.id
          /\ channel_handler'.last_value[Head(queue).name] = Head(queue)
          /\ \A n \in (DOMAIN channel_handler.last_value) \ {Head(queue).name} :
                /\ n \in DOMAIN channel_handler'.last_value
                /\ channel_handler'.last_value[n] = channel_handler.last_value[n]]_vars

\* A delivery for one name was followed by a delivery for another name, and
\* the first entry still holds its sample.
C2_Witness ==
    /\ channel_handler # NoValue
    /\ Len(Delivered) = 2
    /\ Delivered[1].name # Delivered[2].name
    /\ channel_handler.last_value[Delivered[1].name] = Delivered[1]
    /\ channel_handler.last_value[Delivered[2].name] = Delivered[2]

\* C3: when the requested name is not a key of the pipeline's dictionary,
\* construction raises KeyError carrying that name, no handler exists or is
\* registered, and once the KeyError clause has run stderr holds one line
\* with the name and every key of the dictionary.
C3_UnknownName ==
    (pipeline # NoValue /\ arguments.channel_name \notin KeySet(pipeline.channel_name)) =>
        /\ channel_handler = NoValue
        /\ ~pipeline.consumer
        /\ pc \in {"construct", "exc_key", "disconnect", "done"}
        /\ pc # "construct" =>
              raised = Exc("KeyError", arguments.channel_name, "construct")
        /\ pc \in {"disconnect", "done"} =>
              /\ Len(stderr) = 1
              /\ repr(arguments.channel_name) \in Range(stderr[1])
              /\ KeySet(pipeline.channel_name) \subseteq Range(stderr[1])

\* main has ended after a failed lookup of "doesNotExist" against the
\* two-channel dictionary.
C3_Witness ==
    /\ pc = "done"
    /\ pipeline # NoValue
    /\ Len(pipeline.channel_name) = 2
    /\ arguments.channel_name = "doesNotExist"
    /\ stderr # <<>>

\* C4: when main has ended, disconnect has been invoked if the pipeline was
\* constructed, and main has not got past the disconnect statement if it was
\* not.
C4_DisconnectIffPipeline ==
    pc \in Terminal =>
        IF pipeline # NoValue
        THEN pc = "done" /\ pipeline.disconnected
        ELSE pc = "escaped"

\* main has ended on the lookup-failure path with the pipeline disconnected.
C4_Witness ==
    /\ pc = "done"
    /\ raised # NoValue
    /\ raised.type = "KeyError"
    /\ raised.at = "construct"
    /\ pipeline.disconnected

\* C5: after CTRL-C in the sleep loop the loop is left, nothing is on stderr,
\* and main ends only with the pipeline disconnected.
C5_InterruptInSleep ==
    raised = Exc("KeyboardInterrupt", "", "sleep") =>
        /\ pc \in {"exc_kbd", "disconnect", "done"}
        /\ stderr = <<>>
        /\ pipeline.consumer
        /\ pc = "done" => pipeline.disconnected

\* main has ended after an interrupt of the sleep.
C5_Witness ==
    /\ pc = "done"
    /\ raised = Exc("KeyboardInterrupt", "", "sleep")
    /\ pipeline.disconnected

\* C6 (as claimed): once the handler is registered, main leaves the loop
\* only on a KeyboardInterrupt.
C6_LoopLeftOnlyByInterrupt ==
    (pipeline # NoValue /\ pipeline.consumer /\ pc \notin {"sleep", "dump"}) =>
        (raised # NoValue /\ raised.type = "KeyboardInterrupt")

\* C7 (as claimed): when parsing or pipeline construction raised, the error
\* is printed by a handler, and no exception leaves main from a handler or
\* from the disconnect statement.
C7_SetupFailureReported ==
    (pipeline = NoValue /\ raised # NoValue) =>
        /\ raised.type # "UnboundLocalError"
        /\ (pc = "disconnect" /\ raised.type \in {"KeyError", "Exception"}) =>
              Len(stderr) = 1

\* C8 (as claimed): one line is printed for every delivered sample whose id
\* is the id resolved at construction, and none for the others.
C8_PrintedIffIdMatches ==
    channel_handler # NoValue =>
        Len(stdout) =
            Cardinality({i \in 1..Len(Delivered) :
                            Delivered[i].id = channel_handler.id})

C10_SequentialDeliveries ==
    /\ [](channel_handler # NoValue =>
            /\ ~dumpRan
            /\ channel_handler.last_value =
                  StoreAll([k \in KeySet(pipeline.channel_name) |-> None],
                           Delivered))
    /\ [][(channel_handler # NoValue /\ ~(queue # <<>> /\ queue' = Tail(queue)))
              => channel_handler' = channel_handler]_vars

\* main is between its sleep and the dump attempt while samples have been
\* delivered and a further one is still in flight.
C10_Witness ==
    /\ pc = "dump"
    /\ Len(Delivered) >= 2
    /\ queue # <<>>

====
